---- MODULE Spec2Model ----
(***************************************************************************)
(* Client-side session / authorization model of the quiz portal frontend:  *)
(* Token Codec and Session Store (auth/jwt.ts), Auth Context with its      *)
(* hydration effect, signIn and signOut (auth/AuthContext.tsx), the Route  *)
(* Guard (PrivateRoute), the route table (App.tsx) and the page handlers   *)
(* that touch the durable session slots.                                   *)
(***************************************************************************)
EXTENDS Integers, Sequences, FiniteSets, TLC

(* ---------- bounds ---------- *)
\* the clock runs over 1..MaxTime (seconds); expiry claims range over 0..MaxTime
MaxTime == 2
\* number of signIn requests that can be in flight at the same time
MaxSignIns == 2

(* ---------- optional values ---------- *)
\* undefined / null / a missing field / an empty storage slot
None == << >>
Some(v) == << v >>
\* a ?? b
Coalesce(a, b) == IF a # None THEN a ELSE b
\* JavaScript truthiness of an optional string ("" is falsy)
TruthyStr(o) == o # None /\ o[1] # ""
\* JavaScript truthiness of an optional number (0 is falsy)
TruthyNum(o) == o # None /\ o[1] # 0

(* ---------- values ---------- *)
Roles == {"STUDENT", "INSTRUCTOR", "ADMIN"}
OptRoles == {None} \cup {Some(r) : r \in Roles}
ExpValues == {None} \cup {Some(e) : e \in 0..MaxTime}

\* b2n: 1 when the condition holds
Count(b) == IF b THEN 1 ELSE 0

\* JwtPayload: the claims carried by the middle segment of a token.  The
\* claims considered differ from BaseClaims in at most one of: the
\* subject/name pair, the email, the role, the expiry.
BaseClaims == [sub |-> Some(7), email |-> Some("a@b.com"), name |-> Some("Ann"),
               role |-> Some("STUDENT"), exp |-> None]
ClaimsSet ==
  { c \in [sub : {None, Some(7)}, email : {None, Some("a@b.com")},
           name : {None, Some("Ann")}, role : OptRoles, exp : ExpValues] :
      Count(<< c.sub, c.name >> # << BaseClaims.sub, BaseClaims.name >>)
      + Count(c.email # BaseClaims.email) + Count(c.role # BaseClaims.role)
      + Count(c.exp # BaseClaims.exp) <= 1 }
NoClaims == [sub |-> None, email |-> None, name |-> None, role |-> None, exp |-> None]

\* a token string: its number of dot-separated segments, whether its middle
\* segment is base64url of a JSON object, and the claims that object carries
JwtToken(c) == [empty |-> FALSE, segs |-> 3, json |-> TRUE, claims |-> c]
NoDotToken == [empty |-> FALSE, segs |-> 1, json |-> FALSE, claims |-> NoClaims]
BadPayloadToken == [empty |-> FALSE, segs |-> 3, json |-> FALSE, claims |-> NoClaims]
\* the empty string
EmptyToken == [empty |-> TRUE, segs |-> 1, json |-> FALSE, claims |-> NoClaims]
Tokens == {EmptyToken, NoDotToken, BadPayloadToken} \cup {JwtToken(c) : c \in ClaimsSet}
\* JavaScript truthiness of a token slot's value (null and "" are falsy)
TruthyToken(slot) == slot # None /\ ~slot[1].empty

\* the user object of a login response, {id|userId, email, name, role}.  The
\* records considered differ from BaseRecord in at most one of: the
\* identifier pair, the email, the name, the role; plus the empty object.
BaseRecord == [userId |-> Some(5), id |-> None, email |-> Some("x@y.com"),
               name |-> Some("X"), role |-> Some("ADMIN")]
UserRecords ==
  { u \in [userId : {None, Some(5)}, id : {None, Some(6)},
           email : {None, Some("x@y.com")}, name : {None, Some("X")},
           role : OptRoles] :
      \/ Count(<< u.userId, u.id >> # << BaseRecord.userId, BaseRecord.id >>)
         + Count(u.email # BaseRecord.email) + Count(u.name # BaseRecord.name)
         + Count(u.role # BaseRecord.role) <= 1
      \/ (u.userId = None /\ u.id = None /\ u.email = None /\ u.name = None
          /\ u.role = None) }
NoRecord == [userId |-> None, id |-> None, email |-> None, name |-> None, role |-> None]

\* the text held by the "user" slot: JSON of an object, the JSON text null,
\* text that is not JSON at all, or the empty string
MalformedText == [form |-> "malformed", rec |-> NoRecord]
NullText == [form |-> "null", rec |-> NoRecord]
EmptyText == [form |-> "empty", rec |-> NoRecord]
\* JavaScript truthiness of the user slot's value (null and "" are falsy)
TruthyText(slot) == slot # None /\ slot[1].form # "empty"

\* JSON.stringify of a user object
JSONstringify(u) == [form |-> "object", rec |-> u]
\* JSON.parse: ok = FALSE when it throws; val = None when the text is "null"
JSONparse(text) ==
  IF text.form \in {"malformed", "empty"} THEN [ok |-> FALSE, val |-> None]
  ELSE IF text.form = "null" THEN [ok |-> TRUE, val |-> None]
  ELSE [ok |-> TRUE, val |-> Some(text.rec)]

(* ---------- inputs ---------- *)
\* tokens the login endpoint issues: one without a payload segment, and
\* tokens with subject, name and email, whose role is STUDENT, INSTRUCTOR or
\* missing and whose expiry is absent or 1
ResponseTokens ==
  {NoDotToken} \cup
  { JwtToken(c) : c \in { c \in ClaimsSet :
      /\ c.sub # None /\ c.name # None /\ c.email # None
      /\ c.role \in {None, Some("STUDENT"), Some("INSTRUCTOR")}
      /\ c.exp \in {None, Some(1)} } }
\* user objects the login endpoint returns (None: the body has no user)
ResponseUsers ==
  {None} \cup
  { Some(u) : u \in { u \in UserRecords :
      /\ u.id = None /\ u.name # None
      /\ u.role \in {None, Some("STUDENT"), Some("ADMIN")} } } \cup
  { Some([BaseRecord EXCEPT !.role = Some("GUEST")]) }
\* what the token slot can hold when the application starts
StoredTokens == Tokens
\* what the user slot can hold when the application starts
StoredUsers == {EmptyText, MalformedText, NullText} \cup { JSONstringify(u) : u \in UserRecords }

(* ---------- routes (App.tsx) ---------- *)
PublicRoutes == {"/", "/login"}
Routes == PublicRoutes \cup
          {"/dashboard", "/quizzes", "/attempt", "/instructor", "/admin", "/student"}
\* the roles prop App passes to PrivateRoute on each guarded route
RouteRoles(r) ==
  CASE r = "/instructor" -> Some({"INSTRUCTOR"})
    [] r = "/admin" -> Some({"ADMIN"})
    [] r = "/student" -> Some({"STUDENT"})
    [] OTHER -> None

(* ---------- state ---------- *)
VARIABLES
  tokenSlot,   \* localStorage "token": None or Some(token)
  userSlot,    \* localStorage "user": None or Some(text)
  user,        \* AuthProvider state: None or Some([userId, email, name, role])
  hydrating,   \* AuthProvider state
  now,         \* Date.now() / 1000
  route,       \* current location
  view,        \* what the element of the current route returned at its last render
  dashErr,     \* DashboardPage state err (set once its effect found no role)
  inflight,    \* signIn calls awaiting the login endpoint's response
  thrown,      \* error thrown by the signIn completed in the last step, or None
  navLog,      \* redirects issued by the last step, in order
  wrote,       \* storage slots the last step wrote or removed
  page         \* useState / useRef values of the page component under study

\* the state of the authentication core, and the whole state
authVars == << tokenSlot, userSlot, user, hydrating, now, route, view, dashErr,
               inflight, thrown, navLog, wrote >>
vars == << authVars, page >>

\* no page component is followed
NoPage == [kind |-> "none"]

(* ---------- Token Codec (auth/jwt.ts) ---------- *)
\* ok = FALSE when atob or JSON.parse throws
decodeBase64UrlJSON(tok) ==
  IF tok.json THEN [ok |-> TRUE, val |-> tok.claims] ELSE [ok |-> FALSE, val |-> NoClaims]

readJwt_NoExpiry(slot, t) ==
  IF ~TruthyToken(slot) THEN None
  ELSE LET raw == slot[1] IN
    IF raw.segs < 2 THEN None
    ELSE LET d == decodeBase64UrlJSON(raw) IN
      IF ~d.ok THEN None ELSE Some(d.val)

readJwt_RequiresEmailRole(slot, t) ==
  IF ~TruthyToken(slot) THEN None
  ELSE LET raw == slot[1] IN
    IF raw.segs < 2 THEN None
    ELSE LET d == decodeBase64UrlJSON(raw) IN
      IF ~d.ok THEN None
      ELSE IF TruthyNum(d.val.exp) /\ t > d.val.exp[1] THEN None
      ELSE IF d.val.email = None \/ d.val.role = None THEN None
      ELSE Some(d.val)

\* readJwt(): None, or Some(claims)
readJwt(slot, t) ==
  IF ~TruthyToken(slot) THEN None
  ELSE LET raw == slot[1] IN
    IF raw.segs < 2 THEN None
    ELSE LET d == decodeBase64UrlJSON(raw) IN
      IF ~d.ok THEN None
      ELSE IF TruthyNum(d.val.exp) /\ t > d.val.exp[1] THEN None
      ELSE Some(d.val)

isExpired(payload, t) ==
  IF payload = None \/ ~TruthyNum(payload[1].exp) THEN FALSE
  ELSE t > payload[1].exp[1]

(* ---------- Session Store (auth/jwt.ts) ---------- *)
\* saveSession(token, user?): the pair of slots afterwards
saveSession(tok, usr, oldUserSlot) ==
  [token |-> Some(tok),
   user |-> IF usr # None THEN Some(JSONstringify(usr[1])) ELSE oldUserSlot]
\* the slots saveSession touches
saveSessionWrites(usr) == IF usr # None THEN {"token", "user"} ELSE {"token"}

\* clearSession(): the pair of slots afterwards
clearSession_TokenOnly == [token |-> None, user |-> userSlot]

clearSession == [token |-> None, user |-> None]

(* ---------- Route Guard (PrivateRoute) ---------- *)
Null == [kind |-> "null", to |-> ""]
NavigateTo(r) == [kind |-> "navigate", to |-> r]
Children == [kind |-> "children", to |-> ""]
Public == [kind |-> "public", to |-> ""]

PrivateRoute_IgnoresToken(roles, hyd, usr, tok) ==
  IF hyd THEN Null
  ELSE IF usr = None THEN NavigateTo("/login")
  ELSE IF roles # None /\ ~(usr[1].role # None /\ usr[1].role[1] \in roles[1])
    THEN NavigateTo("/dashboard")
  ELSE Children

PrivateRoute_NoHydratingCheck(roles, hyd, usr, tok) ==
  IF usr = None \/ ~TruthyToken(tok) THEN NavigateTo("/login")
  ELSE IF roles # None /\ ~(usr[1].role # None /\ usr[1].role[1] \in roles[1])
    THEN NavigateTo("/dashboard")
  ELSE Children

PrivateRoute_RoleMismatchToLogin(roles, hyd, usr, tok) ==
  IF hyd THEN Null
  ELSE IF usr = None \/ ~TruthyToken(tok) THEN NavigateTo("/login")
  ELSE IF roles # None /\ ~(usr[1].role # None /\ usr[1].role[1] \in roles[1])
    THEN NavigateTo("/login")
  ELSE Children

PrivateRoute(roles, hyd, usr, tok) ==
  IF hyd THEN Null
  ELSE IF usr = None \/ ~TruthyToken(tok) THEN NavigateTo("/login")
  ELSE IF roles # None /\ ~(usr[1].role # None /\ usr[1].role[1] \in roles[1])
    THEN NavigateTo("/dashboard")
  ELSE Children

\* the element App's route table renders at route r
Render(r, hyd, usr, tok) ==
  IF r \in PublicRoutes THEN Public ELSE PrivateRoute(RouteRoles(r), hyd, usr, tok)

(* ---------- Session Derivation: AuthProvider's hydration effect ---------- *)
userFromRecord_IdFirst(parsed) ==
  [userId |-> Coalesce(parsed.id, Coalesce(parsed.userId, Some(0)))[1],
   email |-> Coalesce(parsed.email, Some("")),
   name |-> Coalesce(parsed.name, Some(""))[1],
   role |-> parsed.role]

\* the in-memory user built from a parsed cached record
userFromRecord(parsed) ==
  [userId |-> Coalesce(parsed.userId, Coalesce(parsed.id, Some(0)))[1],
   email |-> Coalesce(parsed.email, Some("")),
   name |-> Coalesce(parsed.name, Some(""))[1],
   role |-> parsed.role]

userFromClaims_NoRole(payload) ==
  [userId |-> Coalesce(payload.sub, Some(0))[1],
   email |-> payload.email,
   name |-> Coalesce(payload.name, Some(""))[1],
   role |-> None]

\* the in-memory user built from token claims
userFromClaims(payload) ==
  [userId |-> Coalesce(payload.sub, Some(0))[1],
   email |-> payload.email,
   name |-> Coalesce(payload.name, Some(""))[1],
   role |-> payload.role]

hydrate_FallsBackToToken(tok, rawUser, usr, t) ==
  LET parsed == IF TruthyText(rawUser) THEN JSONparse(rawUser[1])
                ELSE [ok |-> FALSE, val |-> None]
      payload == readJwt(tok, t)
  IN IF parsed.ok /\ parsed.val # None
       THEN [user |-> Some(userFromRecord(parsed.val[1])), clear |-> FALSE,
             threw |-> FALSE]
     ELSE IF payload # None /\ TruthyStr(payload[1].email) /\ TruthyStr(payload[1].role)
       THEN [user |-> Some(userFromClaims(payload[1])), clear |-> FALSE, threw |-> FALSE]
     ELSE [user |-> usr, clear |-> FALSE, threw |-> FALSE]

\* the try block of the effect: the user it leaves (usr when setUser is not
\* reached), whether it reaches clearSession(), whether it threw
hydrate(tok, rawUser, usr, t) ==
  IF TruthyText(rawUser) THEN
    LET parsed == JSONparse(rawUser[1]) IN
      IF ~parsed.ok \/ parsed.val = None
        THEN [user |-> usr, clear |-> FALSE, threw |-> TRUE]   \* caught by catch {}
        ELSE [user |-> Some(userFromRecord(parsed.val[1])), clear |-> FALSE,
              threw |-> FALSE]
  ELSE
    LET payload == readJwt(tok, t) IN
      IF payload # None /\ TruthyNum(payload[1].exp) /\ t > payload[1].exp[1]
        THEN [user |-> None, clear |-> TRUE, threw |-> FALSE]
      ELSE IF payload # None /\ TruthyStr(payload[1].email) /\ TruthyStr(payload[1].role)
        THEN [user |-> Some(userFromClaims(payload[1])), clear |-> FALSE, threw |-> FALSE]
      ELSE [user |-> usr, clear |-> FALSE, threw |-> FALSE]

\* the hydrating flag after the effect's catch {} finally { setHydrating(false) }
hydrateFinally_OnlyOnSuccess(threw) == threw
hydrateFinally(threw) == FALSE

Hydrate ==
  /\ UNCHANGED page
  /\ hydrating
  /\ LET h == hydrate(tokenSlot, userSlot, user, now)
         slots == IF h.clear THEN clearSession ELSE [token |-> tokenSlot, user |-> userSlot]
     IN /\ user' = h.user
        /\ tokenSlot' = slots.token
        /\ userSlot' = slots.user
        /\ wrote' = IF h.clear THEN {"token", "user"} ELSE {}
        /\ hydrating' = hydrateFinally(h.threw)
        /\ view' = Render(route, hydrating', user', tokenSlot')
  /\ thrown' = None
  /\ navLog' = << >>
  /\ UNCHANGED << now, route, dashErr, inflight >>

(* ---------- effects that run right after a render ---------- *)
\* <Navigate to=... replace /> returned by the guard is still to be followed
RedirectPending == view.kind = "navigate"
\* DashboardPage has mounted and its effect has not run yet
DashboardPending == route = "/dashboard" /\ view.kind = "children" /\ ~dashErr
\* no effect is pending: the application waits for the user or the network
Idle == ~hydrating /\ ~RedirectPending /\ ~DashboardPending

\* a navigation to r, and the render of r's element that follows it
GoTo(r, usr, tok) ==
  /\ route' = r
  /\ view' = Render(r, hydrating, usr, tok)
  /\ dashErr' = FALSE

GuardRedirect ==
  /\ UNCHANGED page
  /\ ~hydrating
  /\ RedirectPending
  /\ GoTo(view.to, user, tokenSlot)
  /\ navLog' = << view.to >>
  /\ thrown' = None
  /\ wrote' = {}
  /\ UNCHANGED << tokenSlot, userSlot, user, hydrating, now, inflight >>

(* ---------- DashboardPage ---------- *)
\* DashboardPage's own readJwt: no expiry check; a token without a second
\* segment makes payload.replace throw, which is caught
dashboardReadJwt(slot) ==
  IF ~TruthyToken(slot) THEN None
  ELSE IF slot[1].segs < 2 \/ ~slot[1].json THEN None
  ELSE Some(slot[1].claims)

roleToPath(role) ==
  CASE role = "STUDENT" -> "/student"
    [] role = "INSTRUCTOR" -> "/instructor"
    [] role = "ADMIN" -> "/admin"
    [] OTHER -> "/"

\* removeItem("token"); removeItem("user"); nav("/login") as the pages do it
RemoveSessionAndGoLogin ==
  /\ tokenSlot' = None
  /\ userSlot' = None
  /\ wrote' = {"token", "user"}
  /\ GoTo("/login", user, None)
  /\ navLog' = << "/login" >>

DashboardPageEffect ==
  /\ UNCHANGED page
  /\ ~hydrating
  /\ DashboardPending
  /\ LET p == dashboardReadJwt(tokenSlot) IN
       IF p = None THEN
         /\ GoTo("/login", user, tokenSlot)
         /\ navLog' = << "/login" >>
         /\ wrote' = {}
         /\ UNCHANGED << tokenSlot, userSlot >>
       ELSE IF TruthyNum(p[1].exp) /\ now > p[1].exp[1] THEN
         RemoveSessionAndGoLogin
       ELSE IF TruthyStr(p[1].role) THEN
         /\ GoTo(roleToPath(p[1].role[1]), user, tokenSlot)
         /\ navLog' = << roleToPath(p[1].role[1]) >>
         /\ wrote' = {}
         /\ UNCHANGED << tokenSlot, userSlot >>
       ELSE
         /\ dashErr' = TRUE
         /\ navLog' = << >>
         /\ wrote' = {}
         /\ UNCHANGED << tokenSlot, userSlot, route, view >>
  /\ thrown' = None
  /\ UNCHANGED << user, hydrating, now, inflight >>

(* ---------- 401 handling in the pages ---------- *)
\* AttemptPage: a questions or answer request answered 401
logoutAndGoLogin ==
  /\ UNCHANGED page
  /\ Idle
  /\ route = "/attempt" /\ view.kind = "children"
  /\ RemoveSessionAndGoLogin
  /\ thrown' = None
  /\ UNCHANGED << user, hydrating, now, inflight >>

\* QuizListPage.loadQuizzes / startAttempt: the request is answered 401
loadQuizzes401 ==
  /\ UNCHANGED page
  /\ Idle
  /\ route = "/quizzes" /\ view.kind = "children"
  /\ RemoveSessionAndGoLogin
  /\ thrown' = None
  /\ UNCHANGED << user, hydrating, now, inflight >>

(* ---------- user navigation and the clock ---------- *)
\* the user follows a link or the history to route r
Navigate(r) ==
  /\ UNCHANGED page
  /\ Idle
  /\ GoTo(r, user, tokenSlot)
  /\ navLog' = << >>
  /\ thrown' = None
  /\ wrote' = {}
  /\ UNCHANGED << tokenSlot, userSlot, user, hydrating, now, inflight >>

Tick ==
  /\ UNCHANGED page
  /\ Idle
  /\ now < MaxTime
  /\ now' = now + 1
  /\ navLog' = << >>
  /\ thrown' = None
  /\ wrote' = {}
  /\ UNCHANGED << tokenSlot, userSlot, user, hydrating, route, view, dashErr, inflight >>

(* ---------- Auth Context: signIn / signOut ---------- *)
\* what the login endpoint can answer
FailureResponses ==
  { [ok |-> FALSE, message |-> m, access_token |-> NoDotToken, user |-> None] :
      m \in {None, Some(""), Some("Bad credentials")} }
SuccessResponses ==
  { [ok |-> TRUE, message |-> None, access_token |-> t, user |-> u] :
      t \in ResponseTokens, u \in ResponseUsers }
LoginResponses == FailureResponses \cup SuccessResponses

\* the message of the Error thrown on a non-success status
loginFailedMessage_AlwaysGeneric(res) == "Login failed"

loginFailedMessage(res) == IF TruthyStr(res.message) THEN res.message[1] ELSE "Login failed"

\* lines 73-102 of signIn, run after saveSession: the identity handed to
\* setUser, or ok = FALSE when new Error("Invalid token") is thrown;
\* decoded tells whether readJwt() was called
signInIdentity(data, slot, t) ==
  LET u == data.user
      emailOut == IF u # None THEN Coalesce(u[1].email, Some("")) ELSE None
      nameOut == IF u # None THEN Coalesce(u[1].name, Some("")) ELSE None
      role == IF u # None THEN u[1].role ELSE None
      userId == IF u # None THEN Coalesce(u[1].userId, Coalesce(u[1].id, Some(0)))[1] ELSE 0
      fallback == ~TruthyStr(emailOut) \/ ~TruthyStr(role)
      payload == readJwt(slot, t)
  IN IF ~fallback THEN
       [ok |-> TRUE, decoded |-> FALSE,
        user |-> [userId |-> userId, email |-> emailOut,
                  name |-> Coalesce(nameOut, Some(""))[1], role |-> role]]
     ELSE IF payload = None THEN
       [ok |-> FALSE, decoded |-> TRUE,
        user |-> [userId |-> 0, email |-> None, name |-> "", role |-> None]]
     ELSE
       [ok |-> TRUE, decoded |-> TRUE,
        user |-> [userId |-> IF userId = 0 THEN Coalesce(payload[1].sub, Some(0))[1]
                                          ELSE userId,
                  email |-> IF ~TruthyStr(emailOut) THEN payload[1].email ELSE emailOut,
                  name |-> IF ~TruthyStr(nameOut)
                             THEN Coalesce(payload[1].name, Some(""))[1] ELSE nameOut[1],
                  role |-> IF ~TruthyStr(role) THEN payload[1].role ELSE role]]

\* the switch at the end of signIn
signInRedirect_InstructorToStudent(role) ==
  IF role \in {Some("STUDENT"), Some("INSTRUCTOR")} THEN "/student"
  ELSE IF role = Some("ADMIN") THEN "/admin"
  ELSE "/dashboard"

signInRedirect(role) ==
  IF role = Some("STUDENT") THEN "/student"
  ELSE IF role = Some("INSTRUCTOR") THEN "/instructor"
  ELSE IF role = Some("ADMIN") THEN "/admin"
  ELSE "/dashboard"

\* LoginPage.handleSubmit calls signIn: fetch() is issued and awaited
SignInCall(id) ==
  /\ UNCHANGED page
  /\ Idle
  /\ route = "/login"
  /\ id \notin inflight
  /\ inflight' = inflight \cup {id}
  /\ thrown' = None
  /\ navLog' = << >>
  /\ wrote' = {}
  /\ UNCHANGED << tokenSlot, userSlot, user, hydrating, now, route, view, dashErr >>

\* the response of call id arrives: the rest of signIn runs, then the rest of
\* LoginPage.handleSubmit (nav("/dashboard") after a signIn that returned)
SignInRespond_FirstWins(id, res) ==
  /\ UNCHANGED page
  /\ Idle
  /\ id \in inflight
  /\ inflight' = inflight \ {id}
  /\ IF ~res.ok THEN
       /\ thrown' = Some(loginFailedMessage(res))
       /\ navLog' = << >>
       /\ wrote' = {}
       /\ UNCHANGED << tokenSlot, userSlot, user, route, view, dashErr >>
     ELSE
       LET saved == saveSession(res.access_token, res.user, userSlot)
           r == signInIdentity(res, saved.token, now)
       IN /\ tokenSlot' = saved.token
          /\ userSlot' = saved.user
          /\ wrote' = saveSessionWrites(res.user)
          /\ IF ~r.ok THEN
               /\ thrown' = Some("Invalid token")
               /\ navLog' = << >>
               /\ UNCHANGED << user, route, view, dashErr >>
             ELSE
               /\ user' = IF user # None THEN user ELSE Some(r.user)
               /\ thrown' = None
               /\ navLog' = << signInRedirect(r.user.role), "/dashboard" >>
               /\ GoTo("/dashboard", user', tokenSlot')
  /\ UNCHANGED << hydrating, now >>

SignInRespond(id, res) ==
  /\ UNCHANGED page
  /\ Idle
  /\ id \in inflight
  /\ inflight' = inflight \ {id}
  /\ IF ~res.ok THEN
       /\ thrown' = Some(loginFailedMessage(res))
       /\ navLog' = << >>
       /\ wrote' = {}
       /\ UNCHANGED << tokenSlot, userSlot, user, route, view, dashErr >>
     ELSE
       LET saved == saveSession(res.access_token, res.user, userSlot)
           r == signInIdentity(res, saved.token, now)
       IN /\ tokenSlot' = saved.token
          /\ userSlot' = saved.user
          /\ wrote' = saveSessionWrites(res.user)
          /\ IF ~r.ok THEN
               /\ thrown' = Some("Invalid token")
               /\ navLog' = << >>
               /\ UNCHANGED << user, route, view, dashErr >>
             ELSE
               /\ user' = Some(r.user)
               /\ thrown' = None
               /\ navLog' = << signInRedirect(r.user.role), "/dashboard" >>
               /\ GoTo("/dashboard", user', tokenSlot')
  /\ UNCHANGED << hydrating, now >>

\* the Logout button of Layout, which wraps the content of every guarded route
signOut ==
  /\ UNCHANGED page
  /\ Idle
  /\ view.kind = "children"
  /\ tokenSlot' = clearSession.token
  /\ userSlot' = clearSession.user
  /\ wrote' = {"token", "user"}
  /\ user' = None
  /\ GoTo("/login", user', tokenSlot')
  /\ navLog' = << "/login" >>
  /\ thrown' = None
  /\ UNCHANGED << hydrating, now, inflight >>

(* ---------- specification ---------- *)
Init ==
  /\ tokenSlot \in {None} \cup {Some(t) : t \in StoredTokens}
  /\ userSlot \in {None} \cup {Some(x) : x \in StoredUsers}
  /\ user = None
  /\ hydrating = TRUE
  /\ now \in 1..MaxTime
  /\ route \in Routes
  /\ view = Render(route, hydrating, user, tokenSlot)
  /\ dashErr = FALSE
  /\ inflight = {}
  /\ thrown = None
  /\ navLog = << >>
  /\ wrote = {}
  /\ page = NoPage

Next ==
  \/ Hydrate
  \/ GuardRedirect
  \/ DashboardPageEffect
  \/ logoutAndGoLogin
  \/ loadQuizzes401
  \/ \E r \in Routes : Navigate(r)
  \/ Tick
  \/ \E id \in 1..MaxSignIns : SignInCall(id)
  \/ \E id \in 1..MaxSignIns, res \in LoginResponses : SignInRespond(id, res)
  \/ signOut

Spec == Init /\ [][Next]_vars

(* ---------- save, then reload ---------- *)
\* saveSession(tok, usr) on the stored slots, in a page about to be reloaded:
\* the next thing to run is the mount effect of AuthProvider
SaveSession(tok, usr) ==
  /\ UNCHANGED page
  /\ hydrating
  /\ wrote = {}
  /\ LET saved == saveSession(tok, usr, userSlot)
     IN /\ tokenSlot' = saved.token
        /\ userSlot' = saved.user
  /\ wrote' = saveSessionWrites(usr)
  /\ view' = Render(route, hydrating, user, tokenSlot')
  /\ UNCHANGED << user, hydrating, now, route, dashErr, inflight, thrown, navLog >>

RoundTripNext ==
  \/ \E tok \in ResponseTokens, usr \in ResponseUsers : SaveSession(tok, usr)
  \/ Hydrate

\* every prior storage state, one saveSession, then hydration
RoundTripSpec == Init /\ [][RoundTripNext]_vars

(* ---------- pages: a signed-in user on a guarded route ---------- *)
\* the state of the authentication core once a user of the given role has
\* been hydrated from a token and a cached record, on route r
SignedIn(role, r) ==
  /\ tokenSlot = Some(JwtToken([BaseClaims EXCEPT !.role = Some(role)]))
  /\ userSlot = Some(JSONstringify([BaseRecord EXCEPT !.role = Some(role)]))
  /\ user = Some(userFromRecord([BaseRecord EXCEPT !.role = Some(role)]))
  /\ hydrating = FALSE
  /\ now = 1
  /\ route = r
  /\ view = Render(r, hydrating, user, tokenSlot)
  /\ dashErr = FALSE
  /\ inflight = {}
  /\ thrown = None
  /\ navLog = << >>
  /\ wrote = {}

\* a page handles a 401 itself: both slots removed, nav("/login")
PageLogout ==
  /\ RemoveSessionAndGoLogin
  /\ thrown' = None
  /\ UNCHANGED << user, hydrating, now, inflight >>

(* ---------- AttemptPage (pages/AttemptPage.tsx) ---------- *)
MaxLoads == 2
MaxQuestions == 2
Options == 0..1

\* AbortController.abort() on the controller of load id (0: abortRef is null)
Abort(loads, id) ==
  IF id = 0 THEN loads ELSE [loads EXCEPT ![id].aborted = TRUE]

\* the render after a state change: the keydown effect (deps idx,
\* questions.length, sending) re-registers onKey, whose submitCurrent sees
\* the selected of that render; other renders leave the old listener
Rerender(old, new) ==
  [new EXCEPT !.onKeySelected =
     IF << new.idx, new.questions.len, new.sending >>
          # << old.idx, old.questions.len, old.sending >>
       THEN new.selected ELSE old.onKeySelected]

\* the component right after mount: load() has issued its first request
AttemptPageMounted ==
  [kind |-> "AttemptPage", mounted |-> TRUE,
   loading |-> TRUE, sending |-> FALSE, err |-> "",
   questions |-> [by |-> 0, len |-> 0], idx |-> 0, selected |-> None,
   onKeySelected |-> None,
   abortRef |-> 1,
   loads |-> << [phase |-> "fetch", aborted |-> FALSE, ok |-> TRUE] >>,
   submit |-> None]

\* the question view is what the component renders
QuestionShown ==
  page.mounted /\ ~page.loading /\ page.err = "" /\ page.questions.len > 0

\* load(): called again by the effect when quizId changes, or by Retry
Load ==
  /\ page.mounted
  /\ Len(page.loads) < MaxLoads
  /\ page' = Rerender(page,
       [page EXCEPT !.err = "", !.loading = TRUE,
                    !.loads = Append(Abort(@, page.abortRef),
                                     [phase |-> "fetch", aborted |-> FALSE, ok |-> TRUE]),
                    !.abortRef = Len(page.loads) + 1])
  /\ UNCHANGED authVars

\* the cleanup of the load effect and of the keydown effect
Unmounted(p) ==
  [p EXCEPT !.mounted = FALSE, !.loads = Abort(@, p.abortRef)]

\* the user leaves the page by its "Back to dashboard" link
Unmount ==
  /\ page.mounted
  /\ page' = Unmounted(page)
  /\ GoTo("/dashboard", user, tokenSlot)
  /\ navLog' = << >> /\ thrown' = None /\ wrote' = {}
  /\ UNCHANGED << tokenSlot, userSlot, user, hydrating, now, inflight >>

\* await fetch(...) of load id settles: rejected with AbortError when the
\* signal was aborted, else resolved with the given status
FetchSettles(id, status) ==
  /\ id \in DOMAIN page.loads
  /\ page.loads[id].phase = "fetch"
  /\ IF page.loads[id].aborted THEN
       /\ page' = IF page.mounted
                    THEN Rerender(page, [page EXCEPT !.loading = FALSE,
                                                     !.loads[id].phase = "done"])
                    ELSE [page EXCEPT !.loads[id].phase = "done"]
       /\ UNCHANGED authVars
     ELSE IF status = 401 THEN
       /\ page' = Unmounted([page EXCEPT !.loading = FALSE, !.loads[id].phase = "done"])
       /\ PageLogout
     ELSE
       /\ page' = [page EXCEPT !.loads[id].phase = "body", !.loads[id].ok = (status = 200)]
       /\ UNCHANGED authVars

\* the body of load id's response has been read, or reading it was aborted:
\* res.json() then rejects with AbortError, which load's catch ignores on a
\* 200 but parseError's own catch swallows on an error status, so that
\* new Error("HTTP 500") reaches load's catch.  n: questions delivered
BodySettles(id, n) ==
  /\ id \in DOMAIN page.loads
  /\ page.loads[id].phase = "body"
  /\ LET l == page.loads[id]
         done == [page EXCEPT !.loads[id].phase = "done"]
     IN page' =
          IF ~page.mounted THEN done
          ELSE IF l.aborted /\ l.ok THEN
            Rerender(page, [done EXCEPT !.loading = FALSE])
          ELSE IF l.aborted THEN
            Rerender(page, [done EXCEPT !.err = "HTTP 500", !.loading = FALSE])
          ELSE IF l.ok THEN
            Rerender(page, [done EXCEPT !.questions = [by |-> id, len |-> n],
                                        !.idx = 0, !.selected = None,
                                        !.loading = FALSE])
          ELSE Rerender(page, [done EXCEPT !.err = "Quiz not found", !.loading = FALSE])
  /\ UNCHANGED authVars

\* an option button: onClick={() => setSelected(i)}
Select(i) ==
  /\ QuestionShown
  /\ page' = Rerender(page, [page EXCEPT !.selected = Some(i)])
  /\ UNCHANGED authVars

\* the Prev button, disabled when idx = 0 or sending
Prev ==
  /\ QuestionShown
  /\ page.idx > 0 /\ ~page.sending
  /\ page' = Rerender(page, [page EXCEPT !.idx = @ - 1, !.selected = None])
  /\ UNCHANGED authVars

\* submitCurrent() with the selected its closure sees
submitCurrent(sel) ==
  /\ sel # None /\ ~page.sending
  /\ page' = Rerender(page,
       [page EXCEPT !.sending = TRUE, !.err = "",
                    !.submit = Some([idx |-> page.idx, len |-> page.questions.len,
                                     option |-> sel[1]])])
  /\ UNCHANGED authVars

\* the Submit button, disabled when nothing is selected or sending
SubmitClick ==
  /\ QuestionShown
  /\ submitCurrent(page.selected)

\* onKey, the keydown listener on window
KeyDown(key) ==
  /\ page.mounted
  /\ ~page.sending
  /\ CASE key = "ArrowLeft" ->
            /\ page.idx > 0
            /\ page' = Rerender(page, [page EXCEPT !.idx = @ - 1])
            /\ UNCHANGED authVars
       [] key = "ArrowRight" ->
            /\ page.idx < page.questions.len - 1
            /\ page' = Rerender(page, [page EXCEPT !.idx = @ + 1])
            /\ UNCHANGED authVars
       [] key = "Enter" ->
            /\ page.questions.len > 0
            /\ submitCurrent(page.onKeySelected)

\* the answer request settles and the rest of submitCurrent runs, with the
\* idx and questions.length its closure holds
SubmitSettles(status) ==
  /\ page.submit # None
  /\ LET c == page.submit[1]
         done == [page EXCEPT !.submit = None, !.sending = FALSE]
     IN IF status = 401 THEN
          /\ page' = Unmounted(done)
          /\ PageLogout
        ELSE IF status = 200 /\ ~(c.idx + 1 < c.len) THEN
          /\ page' = Unmounted(done)
          /\ GoTo("/result", user, tokenSlot)
          /\ navLog' = << "/result" >> /\ thrown' = None /\ wrote' = {}
          /\ UNCHANGED << tokenSlot, userSlot, user, hydrating, now, inflight >>
        ELSE
          /\ page' =
               IF ~page.mounted THEN [page EXCEPT !.submit = None]
               ELSE IF status = 200
                 THEN Rerender(page, [done EXCEPT !.idx = @ + 1, !.selected = None])
               ELSE Rerender(page, [done EXCEPT !.err = "Submit failed"])
          /\ UNCHANGED authVars

AttemptInit ==
  /\ SignedIn("STUDENT", "/attempt")
  /\ page = AttemptPageMounted

AttemptNext ==
  \/ Load
  \/ Unmount
  \/ \E id \in 1..MaxLoads, status \in {200, 500, 401} : FetchSettles(id, status)
  \/ \E id \in 1..MaxLoads, n \in 1..MaxQuestions : BodySettles(id, n)
  \/ \E i \in Options : Select(i)
  \/ Prev
  \/ SubmitClick
  \/ \E key \in {"ArrowLeft", "ArrowRight", "Enter"} : KeyDown(key)
  \/ \E status \in {200, 500, 401} : SubmitSettles(status)

AttemptSpec == AttemptInit /\ [][AttemptNext]_vars

(* ---------- InstructorPage (unnamed/part_002) ---------- *)
MaxReads == 3
Quizzes == 1..2

\* the component with its quiz list loaded and no quiz selected; questions
\* names the quiz whose question list is displayed (0: the empty list)
InstructorPageMounted ==
  [kind |-> "InstructorPage", mounted |-> TRUE,
   selectedQuiz |-> 0, questions |-> 0, err |-> "",
   reads |-> << >>]

\* loadQuestions(quizId) up to its await: no earlier read is cancelled
loadQuestions(p, quizId) ==
  [p EXCEPT !.err = "",
            !.reads = Append(@, [quizId |-> quizId, done |-> FALSE])]

\* the Questions button of a quiz row
QuestionsClick(q) ==
  /\ page.mounted
  /\ Len(page.reads) < MaxReads
  /\ page' = loadQuestions([page EXCEPT !.selectedQuiz = q], q)
  /\ UNCHANGED authVars

\* QuestionForm's onAdded: the questions of the selected quiz are read again
QuestionAdded ==
  /\ page.mounted
  /\ page.selectedQuiz # 0
  /\ Len(page.reads) < MaxReads
  /\ page' = loadQuestions(page, page.selectedQuiz)
  /\ UNCHANGED authVars

\* getJSON of read id settles and the rest of loadQuestions runs
QuestionsSettle(id, status) ==
  /\ id \in DOMAIN page.reads
  /\ ~page.reads[id].done
  /\ LET done == [page EXCEPT !.reads[id].done = TRUE] IN
       IF status = 401 THEN
         /\ page' = [done EXCEPT !.mounted = FALSE]
         /\ PageLogout
       ELSE
         /\ page' =
              IF ~page.mounted THEN done
              ELSE IF status = 200
                THEN [done EXCEPT !.questions = page.reads[id].quizId]
              ELSE [done EXCEPT !.questions = 0, !.err = "Failed to load questions"]
         /\ UNCHANGED authVars

InstructorInit ==
  /\ SignedIn("INSTRUCTOR", "/instructor")
  /\ page = InstructorPageMounted

InstructorNext ==
  \/ QuestionAdded
  \/ \E q \in Quizzes : QuestionsClick(q)
  \/ \E id \in 1..MaxReads, status \in {200, 500, 401} : QuestionsSettle(id, status)

InstructorSpec == InstructorInit /\ [][InstructorNext]_vars

(* ---------- AdminDashboard (pages/AdminDashboard.tsx) ---------- *)
MaxFetches == 3
Statuses == {200, 401, 404, 500, 501}
\* the message field of an error body (None: no JSON body or no message)
BodyMessages == {None, Some("Boom")}

\* the users and quizzes tabs of the component; users and qrows stand for
\* the number of rows held; status is 0 until the request has settled
AdminDashboardMounted ==
  [kind |-> "AdminDashboard", mounted |-> TRUE, err |-> "",
   users |-> 0, userTotal |-> 0, usersUnavailable |-> FALSE,
   qrows |-> 0, qTotal |-> 0, quizzesUnavailable |-> FALSE,
   fetches |-> << >>]

\* the message of the Error getStrict throws on a non-success status
getStrictMessage(status, message) ==
  IF status = 401 THEN "Unauthorized"
  ELSE IF TruthyStr(message) THEN message[1]
  ELSE IF status = 404 THEN "404" ELSE IF status = 500 THEN "500" ELSE "501"

\* loadUsers() / loadQuizzes() up to the await of getStrict
loadUsersCall ==
  /\ page.mounted
  /\ Len(page.fetches) < MaxFetches
  /\ page' = [page EXCEPT !.usersUnavailable = FALSE,
                          !.fetches = Append(@, [list |-> "users", status |-> 0])]
  /\ UNCHANGED authVars

loadQuizzesCall ==
  /\ page.mounted
  /\ Len(page.fetches) < MaxFetches
  /\ page' = [page EXCEPT !.quizzesUnavailable = FALSE,
                          !.fetches = Append(@, [list |-> "quizzes", status |-> 0])]
  /\ UNCHANGED authVars

\* getStrict on a 401: both slots removed and window.location.assign("/login"),
\* which loads the application anew
ReloadAtLogin ==
  /\ tokenSlot' = None /\ userSlot' = None
  /\ wrote' = {"token", "user"}
  /\ user' = None /\ hydrating' = TRUE
  /\ route' = "/login" /\ view' = Render("/login", TRUE, None, None)
  /\ dashErr' = FALSE /\ inflight' = {}
  /\ navLog' = << "/login" >> /\ thrown' = None
  /\ UNCHANGED now

\* the rest of loadUsers once getStrict has settled
loadUsersSettle(p, status, message, total) ==
  IF status = 200 THEN [p EXCEPT !.users = total, !.userTotal = total]
  ELSE IF status \in {404, 501}
    THEN [p EXCEPT !.usersUnavailable = TRUE, !.users = 0, !.userTotal = 0]
  ELSE IF getStrictMessage(status, message) # "Unauthorized"
    THEN [p EXCEPT !.err = getStrictMessage(status, message)]
  ELSE p

\* the rest of loadQuizzes: the branches on the message are the other way round
loadQuizzesSettle(p, status, message, total) ==
  IF status = 200 THEN [p EXCEPT !.qrows = total, !.qTotal = total]
  ELSE IF status \in {404, 501}
    THEN [p EXCEPT !.quizzesUnavailable = TRUE, !.qrows = 0, !.qTotal = 0]
  ELSE IF getStrictMessage(status, message) # "Unauthorized"
    THEN p
  ELSE [p EXCEPT !.err = getStrictMessage(status, message)]

\* request id settles with the given status, error message and row count
FetchSettle(id, status, message, total) ==
  /\ page.mounted
  /\ id \in DOMAIN page.fetches
  /\ page.fetches[id].status = 0
  /\ LET p == [page EXCEPT !.fetches[id].status = status]
         q == IF page.fetches[id].list = "users"
                THEN loadUsersSettle(p, status, message, total)
                ELSE loadQuizzesSettle(p, status, message, total)
     IN IF status = 401
          THEN page' = [q EXCEPT !.mounted = FALSE] /\ ReloadAtLogin
          ELSE page' = q /\ UNCHANGED authVars

AdminInit ==
  /\ SignedIn("ADMIN", "/admin")
  /\ page = AdminDashboardMounted

AdminNext ==
  \/ loadUsersCall
  \/ loadQuizzesCall
  \/ \E id \in 1..MaxFetches, status \in Statuses, message \in BodyMessages,
        total \in {0, 2} : FetchSettle(id, status, message, total)

AdminSpec == AdminInit /\ [][AdminNext]_vars

\* hydration completes under the scheduling of effects: React runs the mount
\* effect of AuthProvider once the first render has been committed
LiveSpec == Spec /\ WF_vars(Hydrate)

\* every pending effect runs: the mount effect of AuthProvider, the
\* navigation of a rendered <Navigate>, the mount effect of DashboardPage
EffectsSpec ==
  Spec /\ WF_vars(Hydrate) /\ WF_vars(GuardRedirect) /\ WF_vars(DashboardPageEffect)

(* ---------- properties ---------- *)
\* the step is the hydration effect
HydrateStep == hydrating /\ ~hydrating'

\* the conditions under which the guard of the current route authorizes
GuardAuthorizes ==
  /\ ~hydrating
  /\ user # None
  /\ tokenSlot # None /\ ~tokenSlot[1].empty
  /\ \/ RouteRoles(route) = None
     \/ \E r \in RouteRoles(route)[1] : user[1].role = Some(r)

\* C1: at every guarded route the guard renders the guarded content if and
\* only if hydration has finished, Current User is non-null, the token slot
\* is non-empty and the role allow-list is absent or contains the user's role
C1_GuardRendersIffAuthorized ==
  route \notin PublicRoutes => ((view.kind = "children") <=> GuardAuthorizes)

\* a role-restricted route renders its content, and so does an unrestricted
\* one for a user whose role is missing
C1_Witness ==
  \/ route = "/admin" /\ view.kind = "children"
  \/ route = "/quizzes" /\ view.kind = "children" /\ user[1].role = None

\* the token slot holds a decodable token whose expiry lies before time t
ExpiredAt(slot, t) ==
  /\ slot # None
  /\ slot[1].json /\ slot[1].segs >= 2
  /\ slot[1].claims.exp # None
  /\ slot[1].claims.exp[1] < t

\* C2: hydration over a stored token whose expiry is strictly less than the
\* current time ends with Current User = null and both slots removed
C2_ExpiredTokenClearsSession ==
  [][(HydrateStep /\ ExpiredAt(tokenSlot, now))
       => (user' = None /\ tokenSlot' = None /\ userSlot' = None)]_vars

\* C3: no step touches one storage slot while the other keeps a value
C3_SlotsWrittenTogether ==
  /\ wrote = {"token"} => userSlot = None
  /\ wrote = {"user"} => tokenSlot = None

\* C4: a signIn that throws leaves both slots and Current User as they were
\* and issues no redirect
C4_ThrowingSignInChangesNothing ==
  [][thrown' # None =>
       (tokenSlot' = tokenSlot /\ userSlot' = userSlot /\ user' = user
        /\ navLog' = << >>)]_vars

\* the identity signIn is expected to resolve from a response whose token
\* carries claims c: each field from the user object when it supplies it,
\* else from c
ExpectedIdentity(u, c) ==
  [userId |-> IF u # None /\ u[1].userId # None THEN u[1].userId[1]
              ELSE IF u # None /\ u[1].id # None THEN u[1].id[1]
              ELSE IF c.sub # None THEN c.sub[1] ELSE 0,
   email |-> IF u # None /\ u[1].email # None THEN u[1].email ELSE c.email,
   name |-> IF u # None /\ u[1].name # None THEN u[1].name[1]
            ELSE IF c.name # None THEN c.name[1] ELSE "",
   role |-> IF u # None /\ u[1].role # None THEN u[1].role ELSE c.role]

\* the response's user object supplies both email and role
SuppliesEmailAndRole(u) == u # None /\ u[1].email # None /\ u[1].role # None

\* the token has a middle segment that decodes to a claims object
Decodable(tok) == ~tok.empty /\ tok.segs >= 2 /\ tok.json

\* the step completes a signIn call / one whose response was a success
SignInStep == inflight' # inflight /\ inflight' \subseteq inflight
SignInSuccessStep == SignInStep /\ "token" \in wrote'

\* what C5 states of a step that processes a success response, with
\* usable(tok) telling when the fallback can read the stored token's claims;
\* the response is the one saveSession has just stored
SignInResolves(usable(_)) ==
  LET u == IF "user" \in wrote' THEN Some(userSlot'[1].rec) ELSE None
      tok == tokenSlot'[1]
  IN /\ SuppliesEmailAndRole(u) =>
          thrown' = None /\ user' = Some(ExpectedIdentity(u, NoClaims))
     /\ (~SuppliesEmailAndRole(u) /\ usable(tok)) =>
          thrown' = None /\ user' = Some(ExpectedIdentity(u, tok.claims))
     /\ (thrown' = Some("Invalid token")) <=> (~SuppliesEmailAndRole(u) /\ ~usable(tok))

ReadableNow(tok) ==
  /\ Decodable(tok)
  /\ (tok.claims.exp = None \/ tok.claims.exp[1] = 0 \/ tok.claims.exp[1] >= now)

C6_OnlyAuthContextMutatesSlots ==
  [][\/ UNCHANGED << tokenSlot, userSlot >>
     \/ Hydrate
     \/ signOut
     \/ \E id \in 1..MaxSignIns, res \in LoginResponses : SignInRespond(id, res)]_vars

\* the token slot holds a decodable token carrying email and role whose
\* expiry is absent or lies after time t
ValidAt(slot, t) ==
  /\ slot # None
  /\ Decodable(slot[1])
  /\ slot[1].claims.email # None /\ slot[1].claims.role # None
  /\ (slot[1].claims.exp = None \/ slot[1].claims.exp[1] > t)

\* after hydration Current User carries the email and role of the claims
AdoptsClaims(slot) ==
  /\ user' # None
  /\ user'[1].email = slot[1].claims.email
  /\ user'[1].role = slot[1].claims.role

\* C7 as stated: for every initial storage state with such a token
C7_ValidTokenHydrates ==
  [][(HydrateStep /\ ValidAt(tokenSlot, now)) => AdoptsClaims(tokenSlot)]_vars

\* C7 amended: ... provided the user slot is absent or empty
C7_ValidTokenHydratesAmended ==
  [][(HydrateStep /\ ValidAt(tokenSlot, now) /\ ~TruthyText(userSlot))
       => AdoptsClaims(tokenSlot)]_vars

\* hydration has adopted the claims of a token with a future expiry
C7_Witness ==
  /\ ~hydrating /\ inflight = {} /\ userSlot = None
  /\ ValidAt(tokenSlot, now) /\ tokenSlot[1].claims.exp # None
  /\ user # None
  /\ user[1].email = tokenSlot[1].claims.email
  /\ user[1].role = tokenSlot[1].claims.role

\* the user slot holds the JSON text of an object
ParseableRecord(slot) == slot # None /\ slot[1].form = "object"

\* C8: a parseable cached user record is adopted as Current User, whatever
\* the token slot holds, and the storage is left as it is
C8_CachedUserAdopted ==
  [][(HydrateStep /\ ParseableRecord(userSlot)) =>
       /\ user' = Some([userId |-> ExpectedIdentity(Some(userSlot[1].rec), NoClaims).userId,
                        email |-> IF userSlot[1].rec.email # None
                                    THEN userSlot[1].rec.email ELSE Some(""),
                        name |-> ExpectedIdentity(Some(userSlot[1].rec), NoClaims).name,
                        role |-> userSlot[1].rec.role])
       /\ UNCHANGED << tokenSlot, userSlot >>]_vars

\* hydration has adopted a cached record that names both identifiers while
\* the token slot holds an expired token
C8_Witness ==
  /\ ~hydrating /\ inflight = {}
  /\ ParseableRecord(userSlot)
  /\ userSlot[1].rec.userId = Some(5) /\ userSlot[1].rec.id = Some(6)
  /\ ExpiredAt(tokenSlot, now)
  /\ user # None /\ user[1].userId = 5 /\ user[1].role = userSlot[1].rec.role

\* the record has the shape {id|userId, email, name, role}
HasShape(rec) ==
  /\ (rec.userId # None \/ rec.id # None)
  /\ rec.email # None /\ rec.name # None /\ rec.role # None

\* C9: a stored user value without that shape counts as no session: after
\* hydration Current User is null and the guard does not authorize
C9_ShapeMismatchIsAbsent ==
  [][(HydrateStep /\ userSlot # None
        /\ ~(ParseableRecord(userSlot) /\ HasShape(userSlot[1].rec)))
       => (user' = None /\ view'.kind # "children")]_vars

\* C10: hydration terminates with the hydrating flag cleared, and no later
\* step sets the flag again
C10_HydrationFinishesForGood ==
  /\ <>[](~hydrating)
  /\ [][~hydrating => ~hydrating']_vars

\* hydration over a malformed user record has finished and a signIn has
\* failed afterwards
C10_Witness ==
  /\ ~hydrating
  /\ thrown # None
  /\ userSlot = Some(MalformedText)

\* C11: while the hydrating flag is set, the guard of every guarded route
\* renders nothing, and no step has issued a redirect
C11_NothingWhileHydrating ==
  hydrating =>
    /\ route \notin PublicRoutes => view = Null
    /\ view.kind \notin {"children", "navigate"}
    /\ navLog = << >>

\* the application has started on a role-restricted route with a stored
\* token and a cached ADMIN record, and hydration has not run yet
C11_Witness ==
  /\ hydrating
  /\ route = "/admin" /\ view = Null
  /\ tokenSlot # None /\ Decodable(tokenSlot[1])
  /\ userSlot = Some(JSONstringify(BaseRecord))

\* Current User's role is missing from the allow-list of the current route
RoleNotAllowed ==
  /\ RouteRoles(route) # None
  /\ \A r \in RouteRoles(route)[1] : user[1].role # Some(r)

\* C12: after hydration the guard of a guarded route redirects to /login
\* when Current User or the token is missing, to /dashboard when both exist
\* and the role is not in the allow-list, and to nowhere else
C12_GuardRedirectTargets ==
  (~hydrating /\ route \notin PublicRoutes) =>
    /\ (user = None \/ tokenSlot = None \/ tokenSlot[1].empty)
         => view = NavigateTo("/login")
    /\ (user # None /\ tokenSlot # None /\ ~tokenSlot[1].empty /\ RoleNotAllowed)
         => view = NavigateTo("/dashboard")
    /\ view.kind = "navigate" => view.to \in {"/login", "/dashboard"}

\* a STUDENT with a token is sent from the instructor route to /dashboard
C12_Witness ==
  /\ ~hydrating
  /\ route = "/instructor" /\ view = NavigateTo("/dashboard")
  /\ user # None /\ user[1].role = Some("STUDENT")

C14_FailedLoginThrows ==
  [][\A id \in inflight : \A res \in FailureResponses :
       SignInRespond(id, res) =>
         /\ thrown' = Some(IF res.message \in {None, Some("")}
                             THEN "Login failed" ELSE res.message[1])
         /\ wrote' = {}
         /\ UNCHANGED << tokenSlot, userSlot, user, route, view >>
         /\ navLog' = << >>]_vars

\* a login was rejected with the server's message while a session was
\* stored and a user was signed in
C14_Witness ==
  /\ thrown = Some("Bad credentials")
  /\ tokenSlot # None /\ user # None
  /\ wrote = {} /\ navLog = << >>

\* the area a role is sent to
RoleArea(role) ==
  CASE role = Some("STUDENT") -> "/student"
    [] role = Some("INSTRUCTOR") -> "/instructor"
    [] role = Some("ADMIN") -> "/admin"
    [] OTHER -> "/dashboard"

\* C15: a signIn that returns has set Current User and issued exactly one
\* navigation, to the area of the resolved role (/dashboard for a missing
\* or unknown role), before LoginPage's handler issues its own navigation; a
\* signIn that throws issues none
C15_RedirectByResolvedRole ==
  [][SignInStep =>
       IF thrown' = None
         THEN /\ user' # None
              /\ Len(navLog') = 2
              /\ navLog'[1] = RoleArea(user'[1].role)
              /\ navLog'[2] = "/dashboard"
         ELSE navLog' = << >>]_vars

\* a sign-in resolved the role INSTRUCTOR from the token and navigated to
\* the instructor area
C15_Witness ==
  /\ user # None /\ user[1].role = Some("INSTRUCTOR")
  /\ navLog = << "/instructor", "/dashboard" >>
  /\ "token" \in wrote

\* sign-ins that resolved no role, and a role outside the three areas
C15_WitnessMissingRole ==
  /\ user # None /\ user[1].role = None
  /\ navLog = << "/dashboard", "/dashboard" >> /\ "token" \in wrote
C15_WitnessOtherRole ==
  /\ user # None /\ user[1].role = Some("GUEST")
  /\ navLog = << "/dashboard", "/dashboard" >> /\ "token" \in wrote

\* the identity signIn resolves from the response that the step has just
\* stored: from its user object, completed from its token's claims
StoredResponseIdentity ==
  LET u == IF "user" \in wrote' THEN Some(userSlot'[1].rec) ELSE None
  IN IF SuppliesEmailAndRole(u) THEN ExpectedIdentity(u, NoClaims)
     ELSE ExpectedIdentity(u, tokenSlot'[1].claims)

\* C16: a signIn call issued while another is in flight adds a request of
\* its own and touches nothing else; each response that resolves an
\* identity sets Current User to that identity whatever Current User was
\* and whatever is still in flight, and a response that resolves none leaves
\* Current User alone: after two concurrent calls Current User is the
\* identity of the response processed later
C16_LastResponseWins ==
  [][/\ (inflight \subseteq inflight' /\ inflight' # inflight) =>
          /\ Cardinality(inflight') = Cardinality(inflight) + 1
          /\ UNCHANGED << tokenSlot, userSlot, user >>
     /\ (SignInStep /\ thrown' = None) => user' = Some(StoredResponseIdentity)
     /\ (SignInStep /\ thrown' # None) => user' = user]_vars

\* two calls were in flight together and the response of the second has been
\* processed first: it signed a user in while the first is still awaited
C16_Witness ==
  /\ inflight = {1}
  /\ user # None /\ thrown = None
  /\ "token" \in wrote /\ Len(navLog) = 2

\* two login requests are in flight at once
C16_WitnessTwoRequests == Cardinality(inflight) = 2

\* the session saveSession has just saved: its user object if one was given,
\* and its identity (that object, or else the claims of its token)
SavedUser == IF "user" \in wrote THEN Some(userSlot[1].rec) ELSE None
SavedIdentity ==
  IF SavedUser # None THEN [email |-> SavedUser[1].email, role |-> SavedUser[1].role]
  ELSE [email |-> tokenSlot[1].claims.email, role |-> tokenSlot[1].claims.role]

\* the saved session names an email and a role, and when they come from the
\* token the token is decodable and not expired
SavedSessionComplete ==
  /\ "token" \in wrote
  /\ SavedUser = None => ValidAt(tokenSlot, now)
  /\ TruthyStr(SavedIdentity.email) /\ TruthyStr(SavedIdentity.role)

\* C17: hydration run right after saveSession has saved a session with an
\* email and a role yields a Current User with that email and that role,
\* whatever the slots held before the save
C17_SaveThenHydrateRoundTrip ==
  [][(HydrateStep /\ SavedSessionComplete) =>
       /\ user' # None
       /\ user'[1].email = SavedIdentity.email
       /\ user'[1].role = SavedIdentity.role]_vars

\* the token slot is empty, or holds a token with fewer than 2 segments or
\* with a middle segment that does not decode to JSON
Undecodable(slot) ==
  slot = None \/ slot[1].empty \/ slot[1].segs < 2 \/ ~slot[1].json

C19_ExpiryDecidesValidity ==
  ~Undecodable(tokenSlot) =>
    LET c == tokenSlot[1].claims IN
      IF c.exp # None /\ c.exp[1] < now
        THEN readJwt(tokenSlot, now) = None /\ isExpired(Some(c), now)
        ELSE readJwt(tokenSlot, now) = Some(c) /\ ~isExpired(Some(c), now)

\* the user slot holds text that JSON.parse rejects, or the text null
UnreadableRecord(slot) == slot \in {Some(MalformedText), Some(NullText)}

\* C20: when the cached user record cannot be parsed or read, the hydration
\* step raises nothing, leaves Current User null and clears the hydrating
\* flag, whatever the token slot holds
C20_UnreadableRecordHydratesToNull ==
  [][(hydrating /\ UnreadableRecord(userSlot)) =>
       /\ thrown' = None
       /\ user' = None
       /\ ~hydrating'
       /\ UNCHANGED << tokenSlot, userSlot >>]_vars

\* hydration has finished without a user over unparseable cached text,
\* although the stored token is valid
C20_Witness ==
  /\ ~hydrating /\ user = None
  /\ userSlot = Some(MalformedText)
  /\ ValidAt(tokenSlot, now)
  /\ wrote = {} /\ navLog = << >> /\ inflight = {}

\* C21: the automatic redirects that follow a navigation come to an end:
\* again and again the application is at rest, on a route that renders
\* content or on /login, with no redirect pending
C21_RedirectChainEnds == []<>Idle

\* signOut has just run: no step has been taken since
JustSignedOut ==
  /\ ~hydrating /\ route = "/login"
  /\ user = None /\ tokenSlot = None /\ userSlot = None
  /\ wrote = {"token", "user"} /\ navLog = << "/login" >>

\* C22: the response of a signIn that was in flight when signOut ran leaves
\* Current User null and both storage slots empty
C22_SignOutOutlivesPendingSignIn ==
  [][(JustSignedOut /\ SignInStep) =>
       user' = None /\ tokenSlot' = None /\ userSlot' = None]_vars

\* C23: once hydration is over, a Current User in memory comes with a
\* non-empty token slot
C23_UserImpliesToken ==
  (~hydrating /\ user # None) => TruthyToken(tokenSlot)

\* C23, second half: a step that removes the stored session leaves Current
\* User null
C23_SessionRemovalClearsUser ==
  [][(wrote' = {"token", "user"} /\ tokenSlot' = None /\ userSlot' = None)
       => user' = None]_vars

\* load id is still awaited and its signal has not been aborted
PendingUncancelled(id) ==
  page.loads[id].phase # "done" /\ ~page.loads[id].aborted

\* at most one load of the page is pending and not cancelled
AtMostOneUncancelledLoad ==
  Cardinality({ id \in DOMAIN page.loads : PendingUncancelled(id) }) <= 1

\* C24: the step in which a cancelled load ends changes neither the data nor
\* the error message of the page
C24_CancelledLoadChangesNothing ==
  [][\A id \in DOMAIN page.loads :
       (/\ page.mounted
        /\ page.loads[id].aborted /\ page.loads[id].phase # "done"
        /\ page'.loads[id].phase = "done")
         => (page'.questions = page.questions /\ page'.err = page.err)]_vars

\* C26: loading is true while an uncancelled load is pending
C26_LoadingWhilePending ==
  (page.mounted /\ \E id \in DOMAIN page.loads : PendingUncancelled(id))
    => page.loading

\* idx is an index of the question list
IdxInRange ==
  page.questions.len > 0 => page.idx \in 0..(page.questions.len - 1)

\* C29: every change of the question index clears the selection
C29_IndexChangeClearsSelection ==
  [][(page.mounted /\ page'.idx # page.idx) => page'.selected = None]_vars

\* C25: once every questions read has settled, a question list that is
\* displayed is the list of the selected quiz
C25_QuestionsOfSelectedQuiz ==
  (/\ page.mounted
   /\ \A id \in DOMAIN page.reads : page.reads[id].done
   /\ page.selectedQuiz # 0 /\ page.questions # 0)
    => page.questions = page.selectedQuiz

\* request id, for the given list, settles in this step
Settles(id, list) ==
  /\ page.fetches[id].list = list
  /\ page.fetches[id].status = 0 /\ page'.fetches[id].status # 0

\* a failed user-list load that is neither a 401 nor a 404/501 sets the
\* error message, and a 401 sets none (what C30 compares the quiz list with)
UsersLoadSetsError ==
  [][\A id \in DOMAIN page.fetches : Settles(id, "users") =>
       /\ page'.fetches[id].status = 500 => page'.err \in {"500", "Boom"}
       /\ page'.fetches[id].status = 401 => page'.err = page.err]_vars

\* the users tab reports a failed load while the document stays loaded
UsersLoadSetsError_Witness ==
  /\ page.mounted /\ page.err = "Boom"
  /\ \E id \in DOMAIN page.fetches :
       page.fetches[id].list = "users" /\ page.fetches[id].status = 500

\* C30: a quiz-list load that fails with a status other than 401, 404 and
\* 501 sets the error message; a 404 or 501 marks the quiz endpoints
\* unavailable with no rows and total 0; a 401 leaves the error message alone
C30_QuizLoadSetsError ==
  [][\A id \in DOMAIN page.fetches : Settles(id, "quizzes") =>
       /\ page'.fetches[id].status = 500 => page'.err \in {"500", "Boom"}
       /\ page'.fetches[id].status \in {404, 501} =>
            page'.quizzesUnavailable /\ page'.qrows = 0 /\ page'.qTotal = 0
       /\ page'.fetches[id].status = 401 => page'.err = page.err]_vars

\* C27: after a signIn that returned, a stored user record is the one that
\* signIn's own response carried
C27_SessionFromOneResponse ==
  [][(SignInStep /\ thrown' = None) =>
       (userSlot' # None => "user" \in wrote')]_vars

\* a signIn submitted through the login page has just returned, for a user
\* whose role has an area
JustSignedIn ==
  /\ ~hydrating /\ thrown = None
  /\ "token" \in wrote /\ Len(navLog) = 2
  /\ route = "/dashboard"
  /\ user # None /\ user[1].role \in {Some(r) : r \in Roles}

\* C28: the redirect that follows a successful sign-in leads to the area of
\* the signed-in user's role, which renders its content
C28_SignInEndsOnRoleArea ==
  [][JustSignedIn =>
       (route' = RoleArea(user[1].role) /\ view'.kind = "children")]_vars

====
